---- MODULE Spec2Model ----
(***************************************************************************)
(* FluidBackground (src/src/assets/fluid-bg.ts): a canvas renderer driven  *)
(* by the host's requestAnimationFrame clock, with a keyed, insertion-     *)
(* ordered registry of blobs and a record of global settings.              *)
(*                                                                         *)
(* Number representation (TLC has no reals):                               *)
(*   times (performance.now, lastFrameMs, startMs)  integer milliseconds   *)
(*   fpsCap, blurPx, parallaxVmax                    tenths                *)
(*   alpha, blob opacity, layer alphas               hundredths            *)
(*   rect.width, rect.height                         tenths of a CSS px    *)
(*   devicePixelRatio, state.dpr                     hundredths            *)
(*   cssW, cssH, canvas.width, canvas.height         integer pixels        *)
(***************************************************************************)
EXTENDS Integers, Sequences, FiniteSets, TLC

VARIABLES
    state,      \* this.state : State                      (fluid-bg.ts 59-73)
    rafId,      \* this.rafId                              (fluid-bg.ts 80)
    blobs,      \* this.blobs : Map<string, InternalBlob>, in insertion order
    canvas,     \* this.canvas: backing-store size and what is painted on it
    pending,    \* host: handles of the animation callbacks requested and not yet run or cancelled
    now,        \* host: performance.now()
    viewport,   \* host: getBoundingClientRect() of the canvas and window.devicePixelRatio
    ctx,        \* this.ctx: what canvas.getContext('2d') returned (fluid-bg.ts 79, 88)
    call,       \* history: the last operation invoked on the engine, with its arguments
    outcome,    \* history: what that operation did (rendered a frame? threw?)
    stopCalled, \* history: stop()/destroy() has returned and start() was not called since
    paintTimes, \* history: when the last two frames of this running period were rendered
                \*          (<<earlier, later>>, 0 where there was none)
    startedAt,  \* history: when start() began the running period the engine is in
                \*          (0 while it is stopped)
    resolved    \* history: the last unit resolution asked for on its own: the value, the
                \*          dims and the axis given to unitToPx, and what it returned

vars == <<state, rafId, blobs, canvas, pending, now, viewport, ctx, call, outcome,
          stopCalled, paintTimes, startedAt, resolved>>

----------------------------------------------------------------------------
(* Bounds of the model *)

\* the host clock stops advancing here
MaxNow == 40

----------------------------------------------------------------------------
(* Small tools (fluid-bg.ts 337-338) and number conversions *)

Min(a, b) == IF a < b THEN a ELSE b
Max(a, b) == IF a > b THEN a ELSE b

\* clamp(v, a, b) = Math.min(b, Math.max(a, v))
clamp(v, a, b) == Min(b, Max(a, v))

\* x|0 on a number given in tenths, result in tenths: truncation toward zero.
\* (The wrap to 32 bits of x|0 starts at 2^31, beyond every number TLC holds.)
ToInt32(x10) ==
    LET q == IF x10 >= 0 THEN x10 \div 10 ELSE -((-x10) \div 10)
    IN  10 * q

\* {...a, ...b}: object spread, the right operand wins
Spread(a, b) ==
    [k \in (DOMAIN a) \cup (DOMAIN b) |-> IF k \in DOMAIN b THEN b[k] ELSE a[k]]

----------------------------------------------------------------------------
(* The machine the methods act on: every field the engine and the host hold *)

Machine ==
    [state |-> state, rafId |-> rafId, blobs |-> blobs, canvas |-> canvas,
     pending |-> pending,
     rendered |-> FALSE, threw |-> FALSE]

\* a cleared backing store: every pixel transparent, nothing painted
Blank == [background |-> "transparent", paints |-> <<>>]

\* null / undefined of the source
NULL == "null"

\* a truthy string: neither null/undefined nor the empty string
Truthy(v) == v # NULL /\ v # ""

\* opts.k ?? d  (an option given as null is given as NULL where d is NULL)
Opt(opts, k, d) == IF k \in DOMAIN opts THEN opts[k] ELSE d

----------------------------------------------------------------------------
(* Viewport tracker (fluid-bg.ts 194-208) *)

\* Math.max(1, window.devicePixelRatio || 1), in hundredths
MeasuredDpr(vp) == Max(100, IF vp.devicePixelRatio = 0 THEN 100 ELSE vp.devicePixelRatio)

\* Math.max(1, Math.floor(rect.width)) for a length given in tenths of a px
MeasuredCss(len10) == Max(1, len10 \div 10)

\* Math.max(1, Math.round(css * dpr)), dpr in hundredths; Math.round rounds halves up
Physical(css, dpr) == Max(1, (css * dpr + 50) \div 100)

\* ensureSize with Math.floor for Math.round in the size of the backing store
ensureSizeFloors(m, vp) ==
    LET dpr  == MeasuredDpr(vp)
        cssW == MeasuredCss(vp.width)
        cssH == MeasuredCss(vp.height)
    IN  IF cssW # m.state.cssW \/ cssH # m.state.cssH \/ dpr # m.state.dpr
        THEN [m EXCEPT !.state.cssW = cssW,
                       !.state.cssH = cssH,
                       !.state.dpr  = dpr,
                       !.canvas = [width   |-> Max(1, (cssW * dpr) \div 100),
                                   height  |-> Max(1, (cssH * dpr) \div 100),
                                   surface |-> Blank]]
        ELSE m

ensureSize(m, vp) ==
    LET dpr  == MeasuredDpr(vp)
        cssW == MeasuredCss(vp.width)
        cssH == MeasuredCss(vp.height)
    IN  IF cssW # m.state.cssW \/ cssH # m.state.cssH \/ dpr # m.state.dpr
        THEN [m EXCEPT !.state.cssW = cssW,
                       !.state.cssH = cssH,
                       !.state.dpr  = dpr,
                       \* assigning canvas.width / canvas.height resets the bitmap
                       !.canvas = [width   |-> Physical(cssW, dpr),
                                   height  |-> Physical(cssH, dpr),
                                   surface |-> Blank]]
        ELSE m

----------------------------------------------------------------------------
(* Renderer (fluid-bg.ts 210-296) *)

\* the fills of one blob, one per layer in list order (fluid-bg.ts 274-290)
LayerFills(b) == [j \in 1..Len(b.layers) |-> [blob |-> b.id, layer |-> j]]

\* reading b.layers.length, center.x or b.drift.ax of a record without that
\* field raises a TypeError (fluid-bg.ts 245, 249, 253)
BlobThrows(b) ==
    \/ "layers" \notin DOMAIN b
    \/ /\ Len(b.layers) > 0
       /\ ("center" \notin DOMAIN b \/ "drift" \notin DOMAIN b)

\* the blob loop from entry i on: the fills so far, and whether the loop threw
RECURSIVE paintBlobs(_, _, _)
paintBlobs(entries, i, acc) ==
    IF i > Len(entries) THEN [paints |-> acc, threw |-> FALSE]
    ELSE LET b == entries[i].val
         IN  IF BlobThrows(b) THEN [paints |-> acc, threw |-> TRUE]
             ELSE IF Len(b.layers) = 0 THEN paintBlobs(entries, i + 1, acc)
             ELSE paintBlobs(entries, i + 1, acc \o LayerFills(b))

\* the surface after a frame: the background, the fills, and the elapsed time
\* t = tsMs - s.startMs (in ms) that the drift and the breath of every blob of
\* the frame were computed for (fluid-bg.ts 238, 253-263)
render(m, tsMs) ==
    LET bg == IF Truthy(m.state.background) THEN m.state.background ELSE "transparent"
        p  == paintBlobs(m.blobs, 1, <<>>)
    IN  [m EXCEPT !.canvas.surface = [background |-> bg, paints |-> p.paints,
                                     t |-> tsMs - m.state.startMs],
                  !.rendered = TRUE,
                  !.threw = p.threw]

----------------------------------------------------------------------------
(* Frame scheduler (fluid-bg.ts 155-192) *)

\* A handle the host can return: a positive integer that names no outstanding
\* request and is not the one the engine still holds. (Browsers count upwards;
\* only the identity of a handle is ever used, in cancelAnimationFrame.)
FreshHandle(m) ==
    CHOOSE h \in 1..(Cardinality(m.pending) + 2) :
        /\ h \notin m.pending \cup {m.rafId}
        /\ \A g \in 1..(h - 1) : g \in m.pending \cup {m.rafId}

\* this.rafId = requestAnimationFrame(this.loop)
requestAnimationFrame(m) ==
    LET h == FreshHandle(m)
    IN  [m EXCEPT !.pending = @ \cup {h}, !.rafId = h]

\* the host's cancelAnimationFrame
cancelAnimationFrame(m, h) == [m EXCEPT !.pending = @ \ {h}]

\* TooSoon with the interval taken as fpsCap / 1000 instead of 1000 / fpsCap
TooSoonInverseInterval(s, t) ==
    LET dt10 == IF s.lastFrameMs # 0 THEN 10 * (t - s.lastFrameMs) ELSE 167
    IN  s.fpsCap > 0 /\ dt10 * 1000 < s.fpsCap

\* dt < minDt, with dt = now - lastFrameMs or 16.7 and minDt = 1000 / fpsCap
TooSoon(s, t) ==
    LET dt10 == IF s.lastFrameMs # 0 THEN 10 * (t - s.lastFrameMs) ELSE 167
    IN  s.fpsCap > 0 /\ dt10 * s.fpsCap < 100000

\* loop with lastFrameMs = now moved in front of the test of the ceiling
loopStampsBeforeTest(m, t, vp) ==
    IF ~m.state.running THEN m
    ELSE LET m1 == requestAnimationFrame(m)
         IN  IF TooSoon(m1.state, t) THEN [m1 EXCEPT !.state.lastFrameMs = t]
             ELSE render(ensureSize([m1 EXCEPT !.state.lastFrameMs = t], vp), t)

\* loop with render() called before ensureSize()
loopRendersBeforeResize(m, t, vp) ==
    IF ~m.state.running THEN m
    ELSE LET m1 == requestAnimationFrame(m)
         IN  IF TooSoon(m1.state, t) THEN m1
             ELSE ensureSize(render([m1 EXCEPT !.state.lastFrameMs = t], t), vp)

loop(m, t, vp) ==
    IF ~m.state.running THEN m
    ELSE LET m1 == requestAnimationFrame(m)
         IN  IF TooSoon(m1.state, t) THEN m1
             ELSE render(ensureSize([m1 EXCEPT !.state.lastFrameMs = t], vp), t)

\* start without its guard against a second start
startUnguarded(m, t, vp) ==
    loop([m EXCEPT !.state.running = TRUE, !.state.lastFrameMs = 0], t, vp)

\* start that requests the first callback and leaves the first frame to it
startSchedulesOnly(m, t, vp) ==
    IF m.state.running THEN m
    ELSE requestAnimationFrame([m EXCEPT !.state.running = TRUE, !.state.lastFrameMs = 0])

\* start that also restarts the animation clock
startRestartsAnimation(m, t, vp) ==
    IF m.state.running THEN m
    ELSE loop([m EXCEPT !.state.running = TRUE, !.state.lastFrameMs = 0,
                        !.state.startMs = t], t, vp)

start(m, t, vp) ==
    IF m.state.running THEN m
    ELSE loop([m EXCEPT !.state.running = TRUE, !.state.lastFrameMs = 0], t, vp)

\* stop with start's guard copied in: it returns at once on a running engine
stopGuarded(m) ==
    IF m.state.running THEN m
    ELSE IF m.rafId # 0
         THEN [cancelAnimationFrame(m, m.rafId) EXCEPT !.rafId = 0]
         ELSE m

stop(m) ==
    LET m1 == [m EXCEPT !.state.running = FALSE]
    IN  IF m1.rafId # 0
        THEN [cancelAnimationFrame(m1, m1.rafId) EXCEPT !.rafId = 0]
        ELSE m1

\* destroy that clears the canvas and the registry but does not stop the loop
destroyWithoutStop(m) ==
    LET m2 == IF ctx # NULL THEN [m EXCEPT !.canvas.surface = Blank] ELSE m
    IN  [m2 EXCEPT !.blobs = <<>>]

destroy(m) ==
    LET m1 == stop(m)
        m2 == IF ctx # NULL THEN [m1 EXCEPT !.canvas.surface = Blank] ELSE m1
    IN  [m2 EXCEPT !.blobs = <<>>]

----------------------------------------------------------------------------
(* Blob registry (fluid-bg.ts 81, 140-152, 300-306): a Map kept as the    *)
(* sequence of its entries [key, val] in insertion order                   *)

\* the position of key k among the entries, 0 when absent
MapIndex(entries, k) ==
    IF \E i \in 1..Len(entries) : entries[i].key = k
    THEN CHOOSE i \in 1..Len(entries) : entries[i].key = k
    ELSE 0

MapHas(entries, k) == MapIndex(entries, k) # 0

MapGet(entries, k) == entries[MapIndex(entries, k)].val

\* Map.set: an existing key keeps its position, a new key goes last
MapSet(entries, k, v) ==
    IF MapHas(entries, k)
    THEN [entries EXCEPT ![MapIndex(entries, k)] = [key |-> k, val |-> v]]
    ELSE Append(entries, [key |-> k, val |-> v])

\* Map.delete
MapDelete(entries, k) ==
    IF MapHas(entries, k)
    THEN LET i == MapIndex(entries, k)
         IN  SubSeq(entries, 1, i - 1) \o SubSeq(entries, i + 1, Len(entries))
    ELSE entries

\* { ...cfg, _diameterPx: 0 }
materialize(cfg) == Spread(cfg, [_diameterPx |-> 0])

\* addBlob that inserts only when the id is new, and keeps the old record otherwise
addBlobIfAbsent(m, cfg) ==
    LET b == materialize(cfg)
    IN  IF MapHas(m.blobs, b.id) THEN m ELSE [m EXCEPT !.blobs = MapSet(@, b.id, b)]

addBlob(m, cfg) ==
    LET b == materialize(cfg)
    IN  [m EXCEPT !.blobs = MapSet(@, b.id, b)]

\* cfg && cfg.id
CfgHasId(cfg) == "id" \in DOMAIN cfg /\ Truthy(cfg.id)

\* updateBlob without the final id: prev.id, so that the partial's id wins
updateBlobTakesPartialId(m, id, cfg) ==
    IF ~MapHas(m.blobs, id)
    THEN IF CfgHasId(cfg) THEN addBlob(m, cfg) ELSE m
    ELSE LET prev == MapGet(m.blobs, id)
             next == materialize(Spread(prev, cfg))
         IN  [m EXCEPT !.blobs = MapSet(@, id, next)]

\* updateBlob that returns on every unknown id, with or without an id in the partial
updateBlobIgnoresUnknown(m, id, cfg) ==
    IF ~MapHas(m.blobs, id)
    THEN m
    ELSE LET prev == MapGet(m.blobs, id)
             next == materialize(Spread(Spread(prev, cfg), [id |-> prev.id]))
         IN  [m EXCEPT !.blobs = MapSet(@, id, next)]

\* updateBlob that files the record of an unknown id under the id it was called with
updateBlobAddsUnderCalledId(m, id, cfg) ==
    IF ~MapHas(m.blobs, id)
    THEN IF CfgHasId(cfg) THEN [m EXCEPT !.blobs = MapSet(@, id, materialize(cfg))] ELSE m
    ELSE LET prev == MapGet(m.blobs, id)
             next == materialize(Spread(Spread(prev, cfg), [id |-> prev.id]))
         IN  [m EXCEPT !.blobs = MapSet(@, id, next)]

updateBlob(m, id, cfg) ==
    IF ~MapHas(m.blobs, id)
    THEN IF CfgHasId(cfg) THEN addBlob(m, cfg) ELSE m
    ELSE LET prev == MapGet(m.blobs, id)
             next == materialize(Spread(Spread(prev, cfg), [id |-> prev.id]))
         IN  [m EXCEPT !.blobs = MapSet(@, id, next)]

\* removeBlob that drops the entry inserted last instead of the entry of the key
removeBlobLast(m, id) ==
    [m EXCEPT !.blobs = IF MapHas(@, id) THEN SubSeq(@, 1, Len(@) - 1) ELSE @]

removeBlob(m, id) == [m EXCEPT !.blobs = MapDelete(@, id)]

----------------------------------------------------------------------------
(* Settings (fluid-bg.ts 120-137) *)

setAlpha(m, a) == [m EXCEPT !.state.alpha = clamp(a, 0, 100)]

setBlurPx(m, px) == [m EXCEPT !.state.blurPx = Max(0, ToInt32(px))]

setParallax(m, v) == [m EXCEPT !.state.parallaxVmax = v]

\* setFpsCap that also restarts the frame timing
setFpsCapRestartsTiming(m, fps) ==
    [m EXCEPT !.state.fpsCap = Max(0, ToInt32(fps)), !.state.lastFrameMs = 0]

setFpsCap(m, fps) == [m EXCEPT !.state.fpsCap = Max(0, ToInt32(fps))]

setComposite(m, mode) == [m EXCEPT !.state.composite = mode]

\* color ?? null
setBackground(m, color) == [m EXCEPT !.state.background = color]

----------------------------------------------------------------------------
(* Unit resolver (fluid-bg.ts 323-333).                                    *)
(* A string is the sequence of its characters. A number is NaN or a        *)
(* decimal m * 10^-e, kept in lowest form; the rounding of binary floating *)
(* point and the literal "Infinity" are outside the inputs explored.       *)

NaN == [nan |-> TRUE, m |-> 0, e |-> 0]

\* the number m * 10^-e, in lowest form
RECURSIVE Num(_, _)
Num(m, e) ==
    IF e > 0 /\ m % 10 = 0 THEN Num(m \div 10, e - 1)
    ELSE [nan |-> FALSE, m |-> m, e |-> e]

RECURSIVE Pow10(_)
Pow10(k) == IF k <= 0 THEN 1 ELSE 10 * Pow10(k - 1)

isNaN(n) == n.nan

\* a * b and a / 100 of IEEE numbers: NaN in, NaN out
Times(a, b) == IF a.nan \/ b.nan THEN NaN ELSE Num(a.m * b.m, a.e + b.e)
DividedBy100(a) == IF a.nan THEN NaN ELSE Num(a.m, a.e + 2)

\* typeof v: a value is a number or a string
NumberValue(n) == [type |-> "number", num |-> n]
StringValue(chars) == [type |-> "string", chars |-> chars]

DecimalDigits == <<"0", "1", "2", "3", "4", "5", "6", "7", "8", "9">>
IsDigit(c) == \E d \in 1..10 : DecimalDigits[d] = c
DigitValue(c) == (CHOOSE d \in 1..10 : DecimalDigits[d] = c) - 1

\* the character at position i, "" past the end
At(s, i) == IF i >= 1 /\ i <= Len(s) THEN s[i] ELSE ""

RECURSIVE trimStart(_)
trimStart(s) == IF s # <<>> /\ Head(s) = " " THEN trimStart(Tail(s)) ELSE s

RECURSIVE trimEnd(_)
trimEnd(s) ==
    IF s # <<>> /\ s[Len(s)] = " " THEN trimEnd(SubSeq(s, 1, Len(s) - 1)) ELSE s

\* String.prototype.trim
trim(s) == trimEnd(trimStart(s))

\* String.prototype.endsWith
endsWith(s, suffix) ==
    /\ Len(s) >= Len(suffix)
    /\ SubSeq(s, Len(s) - Len(suffix) + 1, Len(s)) = suffix

\* the first position from i on that holds no digit
RECURSIVE DigitsEnd(_, _)
DigitsEnd(s, i) == IF IsDigit(At(s, i)) THEN DigitsEnd(s, i + 1) ELSE i

\* the decimal value of the digits s[i] .. s[j-1]
RECURSIVE DigitsValue(_, _, _)
DigitsValue(s, i, j) ==
    IF i >= j THEN 0 ELSE 10 * DigitsValue(s, i, j - 1) + DigitValue(s[j - 1])

\* parseFloat: leading white space is skipped, the longest prefix that is a
\* decimal literal (sign, digits, fraction, exponent) is the value, whatever
\* follows it is ignored, and NaN is returned when there is no such prefix
parseFloat(str) ==
    LET s       == trimStart(str)
        i1      == IF At(s, 1) \in {"+", "-"} THEN 2 ELSE 1
        intEnd  == DigitsEnd(s, i1)
        dot     == At(s, intEnd) = "."
        fracEnd == IF dot THEN DigitsEnd(s, intEnd + 1) ELSE intEnd
        fracLen == IF dot THEN fracEnd - (intEnd + 1) ELSE 0
        mant    == DigitsValue(s, i1, intEnd) * Pow10(fracLen)
                     + (IF dot THEN DigitsValue(s, intEnd + 1, fracEnd) ELSE 0)
        signed  == IF At(s, 1) = "-" THEN -mant ELSE mant
        k       == IF At(s, fracEnd + 1) \in {"+", "-"} THEN fracEnd + 2 ELSE fracEnd + 1
        expEnd  == DigitsEnd(s, k)
        exp     == IF At(s, fracEnd) \in {"e", "E"} /\ expEnd > k
                   THEN (IF At(s, fracEnd + 1) = "-" THEN -1 ELSE 1) * DigitsValue(s, k, expEnd)
                   ELSE 0
    IN  IF intEnd = i1 /\ fracLen = 0 THEN NaN
        ELSE IF exp >= fracLen THEN Num(signed * Pow10(exp - fracLen), 0)
        ELSE Num(signed, fracLen - exp)

\* const dims = { w: cssW, h: cssH, vMax: Math.max(cssW, cssH) }  (fluid-bg.ts 247)
Dims(cssW, cssH) == [w |-> cssW, h |-> cssH, vMax |-> Max(cssW, cssH)]

\* unitToPx with "%" always taken of the width, whatever the axis
unitToPxPercentOfWidth(v, dims, axis) ==
    IF v.type = "number" THEN v.num
    ELSE LET s == trim(v.chars)
         IN  IF endsWith(s, <<"p", "x">>) THEN parseFloat(s)
             ELSE IF endsWith(s, <<"%">>)
                  THEN Times(Num(dims.w, 0), DividedBy100(parseFloat(s)))
             ELSE IF endsWith(s, <<"v", "w">>)
                  THEN Times(Num(dims.w, 0), DividedBy100(parseFloat(s)))
             ELSE IF endsWith(s, <<"v", "h">>)
                  THEN Times(Num(dims.h, 0), DividedBy100(parseFloat(s)))
             ELSE IF endsWith(s, <<"v", "m", "a", "x">>)
                  THEN Times(Num(dims.vMax, 0), DividedBy100(parseFloat(s)))
             ELSE LET n == parseFloat(s)
                  IN  IF isNaN(n) THEN Num(0, 0) ELSE n

unitToPx(v, dims, axis) ==
    IF v.type = "number" THEN v.num
    ELSE LET s == trim(v.chars)
         IN  IF endsWith(s, <<"p", "x">>) THEN parseFloat(s)
             ELSE IF endsWith(s, <<"%">>)
                  THEN Times(Num(IF axis = "y" THEN dims.h ELSE dims.w, 0),
                             DividedBy100(parseFloat(s)))
             ELSE IF endsWith(s, <<"v", "w">>)
                  THEN Times(Num(dims.w, 0), DividedBy100(parseFloat(s)))
             ELSE IF endsWith(s, <<"v", "h">>)
                  THEN Times(Num(dims.h, 0), DividedBy100(parseFloat(s)))
             ELSE IF endsWith(s, <<"v", "m", "a", "x">>)
                  THEN Times(Num(dims.vMax, 0), DividedBy100(parseFloat(s)))
             ELSE LET n == parseFloat(s)
                  IN  IF isNaN(n) THEN Num(0, 0) ELSE n

\* resolveDiameter (fluid-bg.ts 319-321)
resolveDiameter(diameter, dims) == unitToPx(diameter, dims, "vmax")

\* no unit resolution has been asked for yet
NothingResolved ==
    [by |-> "", value |-> [type |-> "none"], dims |-> Dims(0, 0), axis |-> "", result |-> NaN]

----------------------------------------------------------------------------
(* Construction (fluid-bg.ts 84-117) *)

\* an HTML canvas before anyone sizes it
FreshCanvas == [width |-> 300, height |-> 150, surface |-> Blank]

\* the engine before the constructor has assigned this.state
Unbuilt ==
    [state |-> NULL, rafId |-> 0, blobs |-> <<>>, canvas |-> FreshCanvas,
     pending |-> {}, rendered |-> FALSE, threw |-> FALSE]

\* this.state = { running: false, alpha: opts.alpha ?? 0.5, ... }  (fluid-bg.ts 95-109)
initialState(opts, t, vp) ==
    [running      |-> FALSE,
     alpha        |-> Opt(opts, "alpha", 50),
     blurPx       |-> Opt(opts, "blurPx", 360),
     parallaxVmax |-> Opt(opts, "parallaxVmax", 10),
     fpsCap       |-> Opt(opts, "fpsCap", 0),
     composite    |-> Opt(opts, "composite", "source-over"),
     background   |-> Opt(opts, "background", NULL),
     dpr          |-> MeasuredDpr(vp),
     cssW         |-> 0,
     cssH         |-> 0,
     lastFrameMs  |-> 0,
     startMs      |-> t]

\* the constructor with `if (opts.autoStart)` for `if (opts.autoStart !== false)`
constructorStartsOnlyWhenAsked(opts, context, t, vp) ==
    IF context = NULL THEN [Unbuilt EXCEPT !.threw = TRUE]
    ELSE LET m1 == ensureSize([Unbuilt EXCEPT !.state = initialState(opts, t, vp)], vp)
         IN  IF "autoStart" \in DOMAIN opts /\ opts.autoStart = TRUE
             THEN start(m1, t, vp)
             ELSE m1

\* the constructor with the test of the context moved behind the first request
\* for an animation frame
constructorSchedulesBeforeCheck(opts, context, t, vp) ==
    IF context = NULL THEN [requestAnimationFrame(Unbuilt) EXCEPT !.threw = TRUE]
    ELSE LET m1 == ensureSize([Unbuilt EXCEPT !.state = initialState(opts, t, vp)], vp)
         IN  IF "autoStart" \in DOMAIN opts /\ opts.autoStart = FALSE
             THEN m1
             ELSE start(m1, t, vp)

constructor(opts, context, t, vp) ==
    IF context = NULL THEN [Unbuilt EXCEPT !.threw = TRUE]
    ELSE LET m1 == ensureSize([Unbuilt EXCEPT !.state = initialState(opts, t, vp)], vp)
         IN  IF "autoStart" \in DOMAIN opts /\ opts.autoStart = FALSE
             THEN m1
             ELSE start(m1, t, vp)

----------------------------------------------------------------------------
(* Inputs explored *)

\* the clock at construction
StartMs == 5

\* the time between two host events
Gaps == {5, 10}

Viewports ==
    { [width |-> 1000, height |-> 1000, devicePixelRatio |-> 100],
      [width |-> 335,  height |-> 1007, devicePixelRatio |-> 150],
      [width |-> 0,    height |-> 5,    devicePixelRatio |-> 0] }

OptionSets ==
    { <<>>,
      [autoStart |-> FALSE],
      [fpsCap |-> 300],
      [fpsCap |-> 1000, background |-> "#102030"],
      [autoStart |-> FALSE, fpsCap |-> 600, composite |-> "screen"] }

Ids == {"a", "b"}

Layer1 == [color |-> <<255, 0, 0>>, centerAlpha |-> 100, midAlpha |-> 50, edgeAlpha |-> 0]
Layer2 == [color |-> <<0, 0, 255>>, centerAlpha |-> 80, midAlpha |-> 40, edgeAlpha |-> 0]

\* a complete BlobConfig
BlobCfg(id, layers) ==
    [id |-> id, diameter |-> "50vmax", center |-> [x |-> "50%", y |-> "50%"],
     layers |-> layers, opacity |-> 100, parallaxScale |-> 0,
     drift |-> [ax |-> 0, ay |-> 0, sx |-> 0, sy |-> 0, speed |-> 0],
     breath |-> NULL]

FullCfgs == { BlobCfg(id, <<Layer1, Layer2>>) : id \in Ids }

\* Partial<BlobConfig> records
Partials ==
    { <<>>,
      [layers |-> <<>>],
      [id |-> "b"],
      [id |-> "b", layers |-> <<Layer2>>],
      [id |-> ""] }

AlphaArgs == {-20, 30, 150}
BlurArgs == {-15, 0, 127}
ParallaxArgs == {0, 25}
FpsArgs == {-10, 0, 300, 605, 1000}
CompositeArgs == {"source-over", "screen"}
BackgroundArgs == {NULL, "", "#102030"}

\* well-formed unit expressions: the text, and the number and the unit it is made of
UnitExamples ==
    { [text |-> <<"5", "0", "%">>,                     n |-> Num(50, 0),  unit |-> "%"],
      [text |-> <<"1", "2", ".", "5", "%">>,           n |-> Num(125, 1), unit |-> "%"],
      [text |-> <<" ", "5", "0", "%", " ">>,           n |-> Num(50, 0),  unit |-> "%"],
      [text |-> <<"1", "2", "0", "p", "x">>,           n |-> Num(120, 0), unit |-> "px"],
      [text |-> <<"-", "1", "0", "p", "x">>,           n |-> Num(-10, 0), unit |-> "px"],
      [text |-> <<"1", "e", "2", "p", "x">>,           n |-> Num(100, 0), unit |-> "px"],
      [text |-> <<"2", "5", "v", "w">>,                n |-> Num(25, 0),  unit |-> "vw"],
      [text |-> <<"7", ".", "5", "0", "v", "h">>,      n |-> Num(75, 1),  unit |-> "vh"],
      [text |-> <<"1", "0", "v", "m", "a", "x">>,      n |-> Num(10, 0),  unit |-> "vmax"],
      [text |-> <<".", "5", "v", "m", "a", "x">>,      n |-> Num(5, 1),   unit |-> "vmax"],
      [text |-> <<"+", "4", "0", "v", "m", "a", "x">>, n |-> Num(40, 0),  unit |-> "vmax"] }

\* strings with a suffix that is no unit, or with no number in front of the unit
MalformedTexts ==
    { <<"b", "o", "g", "u", "s">>,
      <<"1", "2", "e", "m">>,
      <<"5", "0", "p", "t">>,
      <<"a", "b", "c", "p", "x">>,
      <<"p", "x">>,
      <<"%">>,
      <<"-", "v", "w">>,
      <<".", "v", "h">>,
      <<"x", "1", "0", "v", "m", "a", "x">>,
      <<>> }

\* values that are numbers already
NumericInputs == { Num(0, 0), Num(-35, 1), Num(480, 0), NaN }

UnitValues ==
    { StringValue(ex.text) : ex \in UnitExamples }
        \cup { StringValue(t) : t \in MalformedTexts }
        \cup { NumberValue(n) : n \in NumericInputs }

\* diameter expressions (BlobConfig.diameter is a string)
Diameters == { v \in UnitValues : v.type = "string" }

\* logical sizes of the canvas: wide, tall and square
DimsSet == { Dims(200, 100), Dims(200, 400), Dims(100, 100) }

Axes == {"x", "y", "vmax"}

----------------------------------------------------------------------------
(* Initial state: the engine as its constructor leaves it *)

\* the record of a call: the method, its arguments, and whether the registry
\* held the id when the call was made
Call(op, id, cfg, val) ==
    [op |-> op, id |-> id, cfg |-> cfg, val |-> val,
     had |-> \E i \in 1..Len(blobs) : blobs[i].key = id]

\* the paint times after a method that rendered at t, or did not render
Painted(times, m, t) == IF m.rendered THEN <<times[2], t>> ELSE times

\* the machine after a method ran becomes the next state
Becomes(m, c) ==
    /\ state' = m.state
    /\ rafId' = m.rafId
    /\ blobs' = m.blobs
    /\ canvas' = m.canvas
    /\ pending' = m.pending
    /\ outcome' = [rendered |-> m.rendered, threw |-> m.threw]
    /\ call' = c

\* new FluidBackground(canvas, opts) for some opts, viewport and context of the sets given
InitOf(optionSets, viewports, contexts) ==
    \E opts \in optionSets, vp \in viewports, context \in contexts :
        LET m == constructor(opts, context, StartMs, vp)
        IN  /\ state = m.state
            /\ rafId = m.rafId
            /\ blobs = m.blobs
            /\ canvas = m.canvas
            /\ pending = m.pending
            /\ outcome = [rendered |-> m.rendered, threw |-> m.threw]
            /\ call = Call("constructor", "", opts, 0)
            /\ now = StartMs
            /\ viewport = vp
            /\ ctx = context
            /\ stopCalled = FALSE
            /\ paintTimes = Painted(<<0, 0>>, m, StartMs)
            /\ startedAt = IF context # NULL /\ m.state.running THEN StartMs ELSE 0
            /\ resolved = NothingResolved

Init == InitOf(OptionSets, Viewports, {"2d", NULL})

\* the constructor returned an engine
Built == ctx # NULL

----------------------------------------------------------------------------
(* Actions: one per public method, one per host event *)

Start ==
    /\ Built
    /\ LET m == start(Machine, now, viewport)
       IN  /\ Becomes(m, Call("start", "", <<>>, 0))
           /\ paintTimes' = IF state.running THEN paintTimes
                            ELSE Painted(<<0, 0>>, m, now)
    /\ stopCalled' = FALSE
    /\ startedAt' = IF state.running THEN startedAt ELSE now
    /\ UNCHANGED <<now, viewport, ctx, resolved>>

Stop ==
    /\ Built
    /\ Becomes(stop(Machine), Call("stop", "", <<>>, 0))
    /\ stopCalled' = TRUE
    /\ startedAt' = 0
    /\ UNCHANGED <<now, viewport, ctx, paintTimes, resolved>>

Destroy ==
    /\ Built
    /\ Becomes(destroy(Machine), Call("destroy", "", <<>>, 0))
    /\ stopCalled' = TRUE
    /\ startedAt' = 0
    /\ UNCHANGED <<now, viewport, ctx, paintTimes, resolved>>

\* the host runs one pending animation callback, some time after it was requested
FrameOf(gaps) ==
    /\ Built
    /\ \E h \in pending, d \in gaps :
        /\ now + d <= MaxNow
        /\ now' = now + d
        /\ LET m == loop([Machine EXCEPT !.pending = @ \ {h}], now + d, viewport)
           IN  /\ Becomes(m, Call("frame", "", <<>>, 0))
               /\ paintTimes' = Painted(paintTimes, m, now + d)
    /\ UNCHANGED <<viewport, ctx, stopCalled, startedAt, resolved>>

\* time passes with no callback due
Wait ==
    /\ \E d \in Gaps : now + d <= MaxNow /\ now' = now + d
    /\ UNCHANGED <<state, rafId, blobs, canvas, pending, viewport, ctx,
                   call, outcome, stopCalled, paintTimes, startedAt, resolved>>

\* layout or the display changes under the canvas
Resize ==
    /\ \E vp \in Viewports : vp # viewport /\ viewport' = vp
    /\ UNCHANGED <<state, rafId, blobs, canvas, pending, now, ctx,
                   call, outcome, stopCalled, paintTimes, startedAt, resolved>>

\* a method that touches neither the clock nor the host's layout
Method(m, c) ==
    /\ Built
    /\ Becomes(m, c)
    /\ UNCHANGED <<now, viewport, ctx, stopCalled, paintTimes, startedAt, resolved>>

AddBlobOf(cfgs) ==
    \E cfg \in cfgs :
        LET m == addBlob(Machine, cfg)
        IN  Method(m, Call("addBlob", cfg.id, cfg, 0))

UpdateBlobOf(ids, partials) ==
    \E id \in ids, cfg \in partials :
        LET m == updateBlob(Machine, id, cfg)
        IN  Method(m, Call("updateBlob", id, cfg, 0))

RemoveBlobOf(ids) ==
    \E id \in ids : Method(removeBlob(Machine, id), Call("removeBlob", id, <<>>, 0))

SetAlphaOf(args) ==
    \E a \in args : Method(setAlpha(Machine, a), Call("setAlpha", "", <<>>, a))

SetBlurPxOf(args) ==
    \E px \in args : Method(setBlurPx(Machine, px), Call("setBlurPx", "", <<>>, px))

SetParallaxOf(args) ==
    \E v \in args : Method(setParallax(Machine, v), Call("setParallax", "", <<>>, v))

SetFpsCapOf(args) ==
    \E fps \in args : Method(setFpsCap(Machine, fps), Call("setFpsCap", "", <<>>, fps))

SetCompositeOf(args) ==
    \E mode \in args : Method(setComposite(Machine, mode), Call("setComposite", "", <<>>, mode))

SetBackgroundOf(args) ==
    \E color \in args : Method(setBackground(Machine, color), Call("setBackground", "", <<>>, color))

\* the unit resolver is asked for one value, as resolveCenter and
\* resolveDiameter ask it for each blob of a frame
ResolveUnit ==
    /\ Built
    /\ \E v \in UnitValues, dims \in DimsSet, axis \in Axes :
          resolved' = [by |-> "unitToPx", value |-> v, dims |-> dims, axis |-> axis,
                       result |-> unitToPx(v, dims, axis)]
    /\ UNCHANGED <<state, rafId, blobs, canvas, pending, now, viewport, ctx,
                   call, outcome, stopCalled, paintTimes, startedAt>>

\* the diameter of a blob is resolved, as render does for each blob of a frame
ResolveDiameter ==
    /\ Built
    /\ \E v \in Diameters, dims \in DimsSet :
          resolved' = [by |-> "resolveDiameter", value |-> v, dims |-> dims, axis |-> "vmax",
                       result |-> resolveDiameter(v, dims)]
    /\ UNCHANGED <<state, rafId, blobs, canvas, pending, now, viewport, ctx,
                   call, outcome, stopCalled, paintTimes, startedAt>>

Frame == FrameOf(Gaps)
AddBlob == AddBlobOf(FullCfgs)
UpdateBlob == UpdateBlobOf(Ids, Partials)
RemoveBlob == RemoveBlobOf(Ids)
SetAlpha == SetAlphaOf(AlphaArgs)
SetBlurPx == SetBlurPxOf(BlurArgs)
SetParallax == SetParallaxOf(ParallaxArgs)
SetFpsCap == SetFpsCapOf(FpsArgs)
SetComposite == SetCompositeOf(CompositeArgs)
SetBackground == SetBackgroundOf(BackgroundArgs)

----------------------------------------------------------------------------
(* Specifications *)

\* The frame scheduler and the viewport tracker under the host's clock.
Next ==
    \/ Start \/ Stop \/ Destroy \/ Frame \/ Wait \/ Resize \/ SetFpsCap

Spec == Init /\ [][Next]_vars

\* The blob registry and the frames painted from it, on an engine built with
\* the default options.
DefaultViewport == [width |-> 1000, height |-> 1000, devicePixelRatio |-> 100]

InitRegistry == InitOf({<<>>}, {DefaultViewport}, {"2d"})

NextRegistry ==
    \/ AddBlob \/ UpdateBlob \/ RemoveBlob \/ Frame

SpecRegistry == InitRegistry /\ [][NextRegistry]_vars

\* Every public method together: the life cycle, the registry and the settings,
\* each with one or two arguments.
EngineOptionSets == { <<>>, [autoStart |-> FALSE, background |-> "#102030"] }

EngineCfgs == { BlobCfg("a", <<Layer1, Layer2>>) }

EnginePartials == { [layers |-> <<>>], [id |-> "b"] }

InitEngine == InitOf(EngineOptionSets, {DefaultViewport}, {"2d"})

NextEngine ==
    \/ Start \/ Stop \/ Destroy \/ FrameOf({10})
    \/ AddBlobOf(EngineCfgs)
    \/ UpdateBlobOf({"a"}, EnginePartials)
    \/ RemoveBlobOf({"a"})
    \/ SetAlphaOf({150})
    \/ SetBlurPxOf({127})
    \/ SetParallaxOf({25})
    \/ SetFpsCapOf({1000})
    \/ SetCompositeOf({"screen"})
    \/ SetBackgroundOf({NULL})

SpecEngine == InitEngine /\ [][NextEngine]_vars

\* The unit resolver on its own, applied to values, sizes and axes.
NextResolver == ResolveUnit \/ ResolveDiameter

SpecResolver == InitRegistry /\ [][NextResolver]_vars

\* The settings: construction with numeric options of any value, then the setters.
SettingsOptionSets ==
    { <<>>,
      [alpha |-> 150, blurPx |-> 127],
      [alpha |-> -20, fpsCap |-> 299],
      [blurPx |-> -35, fpsCap |-> -10, autoStart |-> FALSE] }

InitSettings == InitOf(SettingsOptionSets, {DefaultViewport}, {"2d"})

NextSettings ==
    \/ SetAlpha \/ SetBlurPx \/ SetParallax \/ SetFpsCap \/ SetComposite \/ SetBackground

SpecSettings == InitSettings /\ [][NextSettings]_vars

----------------------------------------------------------------------------
(* Claims *)

\* C1: after stop() (or destroy()) has returned and until start() is called
\* again, no step renders a frame: nothing is painted and the last-accepted
\* timestamp keeps its value, whatever the host or the caller does.
C1_NoRenderAfterStop ==
    [][(stopCalled /\ stopCalled') =>
          /\ ~outcome'.rendered
          /\ state'.lastFrameMs = state.lastFrameMs
          /\ paintTimes' = paintTimes]_vars

\* C1 witness: stop() was called on an engine that had painted; the clock has
\* moved on since and no callback is left to run.
C1_Witness ==
    /\ Built /\ stopCalled /\ call.op = "stop"
    /\ paintTimes[2] # 0 /\ now > paintTimes[2]
    /\ ~state.running /\ pending = {}

\* C2: between operations, the engine is running exactly when one host
\* callback is pending; stop() on a stopped engine changes nothing.
C2_RunningIffOnePending ==
    /\ [](Built => (state.running <=> Cardinality(pending) = 1))
    /\ [][(call'.op = "stop" /\ ~state.running) =>
             UNCHANGED <<state, rafId, blobs, canvas, pending>>]_vars

\* C2 witness: a callback was rejected by the ceiling on a running engine and
\* one callback is pending again.
C2_Witness ==
    /\ Built /\ call.op = "frame" /\ ~outcome.rendered
    /\ state.running /\ Cardinality(pending) = 1

\* C3: right after destroy() the engine is stopped, nothing is pending, the
\* backing store is cleared and the registry is empty, and destroy() did not
\* throw; a second destroy() leaves every field as it is.
C3_DestroyLeavesNothing ==
    /\ [](call.op = "destroy" =>
             /\ ~state.running /\ pending = {} /\ rafId = 0
             /\ canvas.surface = Blank
             /\ blobs = <<>>
             /\ ~outcome.threw)
    /\ [][(call.op = "destroy" /\ call'.op = "destroy") =>
             UNCHANGED <<state, rafId, blobs, canvas, pending>>]_vars

\* C3 witness: destroy() on an engine that has a background configured and
\* has painted a frame.
C3_Witness ==
    /\ call.op = "destroy" /\ Truthy(state.background) /\ paintTimes[2] # 0

\* C4: when a callback renders a frame under a ceiling fpsCap = N > 0 and an
\* earlier frame was rendered in the same running period, the two frames are
\* at least 1000/N ms apart.
C4_FramesAtLeastIntervalApart ==
    (Built /\ call.op = "frame" /\ outcome.rendered
           /\ paintTimes[1] # 0 /\ state.fpsCap > 0)
        => (paintTimes[2] - paintTimes[1]) * state.fpsCap >= 10000

\* C4 witness: under a ceiling of 30 frames per second, a second frame of a
\* running period was accepted, 35 ms after the one before it.
C4_Witness ==
    /\ Built /\ call.op = "frame" /\ outcome.rendered
    /\ paintTimes[1] # 0 /\ state.fpsCap = 300
    /\ paintTimes[2] - paintTimes[1] = 35

----------------------------------------------------------------------------
(* The registry as the claims speak of it *)

Keys(entries) == { entries[i].key : i \in 1..Len(entries) }

KeyOrder(entries) == [i \in 1..Len(entries) |-> entries[i].key]

Count(entries, k) == Cardinality({ i \in 1..Len(entries) : entries[i].key = k })

ValueOf(entries, k) == entries[CHOOSE i \in 1..Len(entries) : entries[i].key = k].val

\* every entry but the one of key k is in both registries with the same record
OthersUnchanged(before, after, k) ==
    \A j \in (Keys(before) \cup Keys(after)) \ {k} :
        /\ j \in Keys(before) /\ j \in Keys(after)
        /\ ValueOf(after, j) = ValueOf(before, j)

\* A partial record carries an identifier when it has a non-empty id: the
\* empty string counts as no identifier, as in the editor's `b.id || ...`.
CarriesIdentifier(p) == "id" \in DOMAIN p /\ p.id # ""

\* C5: addBlob(cfg) leaves exactly one entry for cfg.id, with cfg's fields;
\* the other entries are unchanged; the size grows by one exactly when the id
\* was absent.
C5_AddInsertsOrReplaces ==
    [][call'.op = "addBlob" =>
          LET cfg == call'.cfg
              id  == call'.cfg.id
          IN  /\ Count(blobs', id) = 1
              /\ \A f \in DOMAIN cfg :
                    /\ f \in DOMAIN ValueOf(blobs', id)
                    /\ ValueOf(blobs', id)[f] = cfg[f]
              /\ OthersUnchanged(blobs, blobs', id)
              /\ Len(blobs') = Len(blobs) + (IF id \in Keys(blobs) THEN 0 ELSE 1)]_vars

\* C5 witness: addBlob replaced the record of an id that was present, beside
\* another entry.
C5_Witness ==
    /\ call.op = "addBlob" /\ call.had /\ Len(blobs) = 2
    /\ ValueOf(blobs, call.id).layers = call.cfg.layers

\* C6: updateBlob(id, partial) on a present id replaces the fields of partial,
\* keeps every other field, keeps the identifier id whatever partial.id says,
\* and changes no other entry, nor the size, nor the order.
C6_UpdateMergesShallowly ==
    [][(call'.op = "updateBlob" /\ call'.id \in Keys(blobs)) =>
          LET id   == call'.id
              p    == call'.cfg
              prev == ValueOf(blobs, id)
              next == ValueOf(blobs', id)
          IN  /\ id \in Keys(blobs')
              /\ DOMAIN next = (DOMAIN prev) \cup (DOMAIN p)
              /\ \A f \in (DOMAIN p) \ {"id"} : next[f] = p[f]
              /\ \A f \in (DOMAIN prev) \ (DOMAIN p) : next[f] = prev[f]
              /\ next.id = id
              /\ OthersUnchanged(blobs, blobs', id)
              /\ KeyOrder(blobs') = KeyOrder(blobs)]_vars

\* C6 witness: updateBlob on a present id with a partial that names another id
\* and a new layer list.
C6_Witness ==
    /\ call.op = "updateBlob" /\ call.had
    /\ "id" \in DOMAIN call.cfg /\ call.cfg.id # call.id /\ call.cfg.id # ""
    /\ "layers" \in DOMAIN call.cfg
    /\ ValueOf(blobs, call.id).layers = call.cfg.layers

\* C7: updateBlob(id, partial) on an absent id does not throw; it leaves the
\* registry as it is when partial carries no identifier, and leaves it as
\* addBlob(partial) would when partial carries one.
C7_UpdateOfUnknownId ==
    [][(call'.op = "updateBlob" /\ call'.id \notin Keys(blobs)) =>
          /\ ~outcome'.threw
          /\ IF CarriesIdentifier(call'.cfg)
             THEN blobs' = addBlob([blobs |-> blobs], call'.cfg).blobs
             ELSE blobs' = blobs]_vars

\* C7 witness: updateBlob on an absent id with a partial that carries another
\* identifier, which is now in the registry.
C7_Witness ==
    /\ call.op = "updateBlob" /\ ~call.had
    /\ CarriesIdentifier(call.cfg) /\ call.cfg.id # call.id
    /\ call.cfg.id \in Keys(blobs) /\ call.id \notin Keys(blobs)

\* C8: removeBlob(id) leaves the other entries, in their order, and nothing
\* else; addBlob of an id into an empty registry followed by removeBlob of
\* that id leaves the registry empty.
C8_RemoveDeletesTheKey ==
    [][/\ call'.op = "removeBlob" =>
             blobs' = SelectSeq(blobs, LAMBDA e : e.key # call'.id)
       /\ (/\ call.op = "addBlob" /\ ~call.had /\ Len(blobs) = 1
           /\ call'.op = "removeBlob" /\ call'.id = call.id) =>
             blobs' = <<>>]_vars

\* C8 witness: removeBlob deleted the first of two entries and the second is
\* still there.
C8_Witness ==
    /\ call.op = "removeBlob" /\ call.had /\ Len(blobs) = 1
    /\ blobs[1].key # call.id /\ blobs[1].key = "b"

\* the fills a frame over the registry consists of: every blob in insertion
\* order, each blob's layers in list order
RECURSIVE FillsOf(_)
FillsOf(entries) ==
    IF entries = <<>> THEN <<>>
    ELSE LET b == Head(entries).val
             n == IF "layers" \in DOMAIN b THEN Len(b.layers) ELSE 0
         IN  [j \in 1..n |-> [blob |-> b.id, layer |-> j]] \o FillsOf(Tail(entries))

\* C9: a rendered frame paints exactly the blobs of the registry, in insertion
\* order and each blob's layers in list order; addBlob or updateBlob of a
\* present id keeps the order of the entries, and removeBlob followed by
\* addBlob of the same id puts that id last.
C9_FramePaintsRegistryInOrder ==
    /\ []((call.op = "frame" /\ outcome.rendered) =>
             canvas.surface.paints = FillsOf(blobs))
    /\ [][(call'.op \in {"addBlob", "updateBlob"} /\ call'.id \in Keys(blobs)) =>
             KeyOrder(blobs') = KeyOrder(blobs)]_vars
    /\ [][(call.op = "removeBlob" /\ call'.op = "addBlob" /\ call'.id = call.id) =>
             blobs'[Len(blobs')].key = call'.id]_vars

\* What does hold of C9: a frame whose blob loop ran to its end painted the
\* registry in insertion order.
C9_CompletedFramePaintsInOrder ==
    (call.op = "frame" /\ outcome.rendered /\ ~outcome.threw) =>
        canvas.surface.paints = FillsOf(blobs)

\* the field of the global state each setter is for
OwnField(op) ==
    CASE op = "setAlpha"      -> "alpha"
      [] op = "setBlurPx"     -> "blurPx"
      [] op = "setParallax"   -> "parallaxVmax"
      [] op = "setFpsCap"     -> "fpsCap"
      [] op = "setComposite"  -> "composite"
      [] op = "setBackground" -> "background"

Setters == {"setAlpha", "setBlurPx", "setParallax", "setFpsCap", "setComposite", "setBackground"}

RegistryOps == {"addBlob", "updateBlob", "removeBlob"}

\* C10: the registry methods and the setters leave the running flag, the
\* pending callback, the start timestamp and the last-accepted timestamp as
\* they are; a setter changes its own field of the global state and nothing
\* else, a registry method changes no field of it.
C10_MutatorsDoNotInterrupt ==
    [][(call'.op \in Setters \cup RegistryOps) =>
          /\ state'.running = state.running
          /\ pending' = pending
          /\ rafId' = rafId
          /\ state'.startMs = state.startMs
          /\ state'.lastFrameMs = state.lastFrameMs
          /\ canvas' = canvas
          /\ IF call'.op \in Setters
             THEN /\ \A f \in (DOMAIN state) \ {OwnField(call'.op)} : state'[f] = state[f]
                  /\ blobs' = blobs
             ELSE state' = state]_vars

\* C10 witness: setFpsCap changed the ceiling of a running engine between two
\* frames, with a callback pending and a blob in the registry.
C10_Witness ==
    /\ call.op = "setFpsCap" /\ state.fpsCap = 1000
    /\ state.running /\ Cardinality(pending) = 1
    /\ state.lastFrameMs > StartMs /\ blobs # <<>>

----------------------------------------------------------------------------
(* Construction and settings *)

\* the options the constructor was given
Given(k) == k \in DOMAIN call.cfg

\* C11 as stated: an option that is not given takes its default (alpha 0.5,
\* blurPx 36, parallax magnitude 1.0, fpsCap 0, composite "normal", no
\* background); the engine is running with its first callback pending right
\* after construction, unless autoStart = false, and then it is stopped with
\* no callback pending.
C11_DefaultsWithCompositeNormal ==
    (Built /\ call.op = "constructor") =>
        /\ ~Given("alpha") => state.alpha = 50
        /\ ~Given("blurPx") => state.blurPx = 360
        /\ ~Given("parallaxVmax") => state.parallaxVmax = 10
        /\ ~Given("fpsCap") => state.fpsCap = 0
        /\ ~Given("composite") => state.composite = "normal"
        /\ ~Given("background") => state.background = NULL
        /\ ~Given("autoStart") => (state.running /\ Cardinality(pending) = 1)
        /\ (Given("autoStart") /\ call.cfg.autoStart = FALSE) =>
              (~state.running /\ pending = {} /\ rafId = 0)

\* C11 as amended: the same, with the default composite "source-over", the
\* canvas name of normal compositing.
C11_Defaults ==
    (Built /\ call.op = "constructor") =>
        /\ ~Given("alpha") => state.alpha = 50
        /\ ~Given("blurPx") => state.blurPx = 360
        /\ ~Given("parallaxVmax") => state.parallaxVmax = 10
        /\ ~Given("fpsCap") => state.fpsCap = 0
        /\ ~Given("composite") => state.composite = "source-over"
        /\ ~Given("background") => state.background = NULL
        /\ ~Given("autoStart") => (state.running /\ Cardinality(pending) = 1)
        /\ (Given("autoStart") /\ call.cfg.autoStart = FALSE) =>
              (~state.running /\ pending = {} /\ rafId = 0)

\* C11 witness: an engine built from the empty options object, running.
C11_Witness ==
    /\ Built /\ call.op = "constructor" /\ DOMAIN call.cfg = {}
    /\ state.running /\ state.composite = "source-over" /\ state.alpha = 50

\* C12: whatever numbers the options and the setters were given, the alpha
\* multiplier is within [0, 1] and the blur radius and the frame-rate ceiling
\* are non-negative integers.
C12_SettingsInRange ==
    Built =>
        /\ state.alpha >= 0 /\ state.alpha <= 100
        /\ state.blurPx >= 0 /\ state.blurPx % 10 = 0
        /\ state.fpsCap >= 0 /\ state.fpsCap % 10 = 0

\* What does hold of C12: each setter leaves its own field in range.
C12_SettersNormalise ==
    /\ (Built /\ call.op = "setAlpha") => (state.alpha >= 0 /\ state.alpha <= 100)
    /\ (Built /\ call.op = "setBlurPx") => (state.blurPx >= 0 /\ state.blurPx % 10 = 0)
    /\ (Built /\ call.op = "setFpsCap") => (state.fpsCap >= 0 /\ state.fpsCap % 10 = 0)

----------------------------------------------------------------------------
(* Unit resolver *)

\* n% of a length
PercentOf(n, whole) == Num(n.m * whole, n.e + 2)

\* the pixels the rules of the resolver give a number n with a unit
Expected(n, unit, dims, axis) ==
    CASE unit = "px"   -> n
      [] unit = "%"    -> PercentOf(n, IF axis = "y" THEN dims.h ELSE dims.w)
      [] unit = "vw"   -> PercentOf(n, dims.w)
      [] unit = "vh"   -> PercentOf(n, dims.h)
      [] unit = "vmax" -> PercentOf(n, IF dims.w > dims.h THEN dims.w ELSE dims.h)

\* C13: a number is returned as it is; a string <n><unit> resolves to n for
\* px, to n% of the height on axis y and of the width on the other axes for %,
\* to n% of the width for vw, of the height for vh and of the larger of the
\* two for vmax, whatever the axis.
C13_UnitResolverRules ==
    /\ resolved.value.type = "number" => resolved.result = resolved.value.num
    /\ \A ex \in UnitExamples :
          (resolved.value.type = "string" /\ resolved.value.chars = ex.text) =>
              resolved.result = Expected(ex.n, ex.unit, resolved.dims, resolved.axis)

\* C13 witness: "12.5%" on axis y of a 200 x 100 viewport is 12.5 pixels.
C13_Witness ==
    /\ resolved.value.type = "string"
    /\ resolved.value.chars = <<"1", "2", ".", "5", "%">>
    /\ resolved.axis = "y" /\ resolved.dims = Dims(200, 100)
    /\ resolved.result = Num(125, 1)

\* C14: a string with a suffix that is no unit, or with no number that can be
\* parsed, resolves to 0.
C14_MalformedResolvesToZero ==
    (resolved.value.type = "string" /\ resolved.value.chars \in MalformedTexts) =>
        resolved.result = Num(0, 0)

\* What does hold of C14: a string without a recognised suffix and without a
\* number at its start resolves to 0.
C14_NoUnitNoNumberIsZero ==
    (/\ resolved.value.type = "string"
     /\ resolved.value.chars \in {<<"b", "o", "g", "u", "s">>, <<>>}) =>
        resolved.result = Num(0, 0)

----------------------------------------------------------------------------
(* Empty collections, failed construction *)

\* the record of entry i has a layer list and the list is empty
ZeroLayers(entries, i) ==
    "layers" \in DOMAIN entries[i].val /\ entries[i].val.layers = <<>>

\* C15: a frame over an empty registry, or over a registry with zero-layer
\* blobs in it, does not throw; it paints nothing for the zero-layer blobs and
\* paints the other blobs.
C15_EmptyCollectionsDoNotThrow ==
    (/\ call.op = "frame" /\ outcome.rendered
     /\ (blobs = <<>> \/ \E i \in 1..Len(blobs) : ZeroLayers(blobs, i))) =>
        /\ ~outcome.threw
        /\ canvas.surface.paints = FillsOf(blobs)

\* What does hold of C15: a frame over an empty registry does not throw, and
\* no frame fills anything for a zero-layer blob.
C15_ZeroLayerBlobPaintsNothing ==
    (call.op = "frame" /\ outcome.rendered) =>
        /\ blobs = <<>> => (~outcome.threw /\ canvas.surface.paints = <<>>)
        /\ \A i \in 1..Len(blobs) :
              ZeroLayers(blobs, i) =>
                  \A j \in 1..Len(canvas.surface.paints) :
                      canvas.surface.paints[j].blob # blobs[i].key

\* C16: when the canvas yields no 2D context the constructor throws, and then
\* and ever after there is no engine state, no callback is pending or was
\* requested, and the canvas is as it was.
C16_NoContextNoEngine ==
    ~Built =>
        /\ outcome.threw /\ call.op = "constructor"
        /\ state = NULL
        /\ pending = {} /\ rafId = 0
        /\ blobs = <<>> /\ canvas = FreshCanvas
        /\ startedAt = 0 /\ paintTimes = <<0, 0>>

\* C16 witness: construction failed, and time has passed since.
C16_Witness ==
    /\ ~Built /\ outcome.threw /\ now > StartMs /\ pending = {}

----------------------------------------------------------------------------
(* The frame loop *)

\* a step in which the host ran the callback of a running engine: the engine
\* has asked for the next one
FrameStep == call'.op = "frame" /\ rafId' # rafId

\* a step in which start() was called
StartStep == call'.op = "start" /\ now' = now /\ viewport' = viewport

\* a delta of 16.7 ms passes the ceiling: fpsCap = 0 or 1000 / fpsCap <= 16.7
AdmitsFirst(fpsCap) == fpsCap = 0 \/ 167 * fpsCap >= 100000

\* C17: a callback that runs on the running engine renders a frame exactly
\* when fpsCap = 0 or delta >= 1000 / fpsCap, with delta = 16.7 ms when no
\* frame was rendered since the last start() and the time since the last
\* rendered frame otherwise; a rejected callback leaves that time as it is.
C17_AcceptedIffIntervalElapsed ==
    [][FrameStep =>
          LET delta10 == IF paintTimes[2] = 0 THEN 167 ELSE 10 * (now' - paintTimes[2])
              due     == state.fpsCap = 0 \/ delta10 * state.fpsCap >= 100000
          IN  /\ outcome'.rendered <=> due
              /\ ~outcome'.rendered =>
                    (paintTimes' = paintTimes /\ state'.lastFrameMs = state.lastFrameMs)
              /\ outcome'.rendered =>
                    (paintTimes'[2] = now' /\ state'.lastFrameMs = now')]_vars

\* C17 witness: under a ceiling of 30 a callback was rejected on the nominal
\* delta of 16.7 ms, no frame having been rendered since start().
C17_Witness ==
    /\ Built /\ call.op = "frame" /\ ~outcome.rendered /\ state.running
    /\ state.fpsCap = 300 /\ paintTimes = <<0, 0>> /\ state.lastFrameMs = 0
    /\ now > startedAt

\* C18: on a running engine a frame is rendered sooner or later, whatever the
\* ceiling: at the latest, a callback that runs a full minimum interval after
\* start() finds that a frame was rendered since, or renders one.
C18_FrameEventuallyAccepted ==
    [][(/\ FrameStep
        /\ state.fpsCap > 0
        /\ (now' - startedAt) * state.fpsCap >= 10000) =>
            paintTimes'[2] # 0]_vars

\* C19 as stated: neither start() nor the constructor renders a frame.
C19_NoRenderInsideStart ==
    (Built /\ call.op \in {"start", "constructor"}) => ~outcome.rendered

\* C19 as amended: start() on a stopped engine makes it running, requests the
\* first callback and runs the body of the loop once itself, so that a frame
\* is rendered inside start() (and inside the constructor when autoStart is
\* on) exactly when fpsCap = 0 or 1000 / fpsCap <= 16.7; start() on a running
\* engine does nothing; every other frame is rendered inside a callback.
C19_StartRunsLoopOnce ==
    /\ []((Built /\ call.op = "constructor" /\ state.running) =>
             /\ Cardinality(pending) = 1
             /\ outcome.rendered <=> AdmitsFirst(state.fpsCap))
    /\ [][StartStep =>
             IF state.running
             THEN /\ UNCHANGED <<state, rafId, blobs, canvas, pending>>
                  /\ ~outcome'.rendered
             ELSE /\ state'.running /\ Cardinality(pending') = 1
                  /\ outcome'.rendered <=> AdmitsFirst(state.fpsCap)
                  /\ state'.lastFrameMs = IF outcome'.rendered THEN now ELSE 0]_vars
    /\ [](outcome.rendered => call.op \in {"constructor", "start", "frame"})

\* C19 witness: start() after a stop() rendered a frame before it returned.
C19_Witness ==
    /\ Built /\ call.op = "start" /\ outcome.rendered
    /\ state.running /\ state.lastFrameMs = now /\ now > StartMs

\* C20: a callback that is accepted sets the last-accepted timestamp, records
\* the measured size and resizes the backing store to it, and then paints, so
\* that the painting is on the store as resized; a callback that is rejected
\* changes none of the timestamp, the recorded size and the canvas, and keeps
\* the schedule alive; a callback on a stopped engine would change nothing
\* and request nothing.
C20_AcceptedFrameEffects ==
    /\ [][FrameStep =>
             IF outcome'.rendered
             THEN /\ state'.lastFrameMs = now'
                  /\ state'.cssW = MeasuredCss(viewport.width)
                  /\ state'.cssH = MeasuredCss(viewport.height)
                  /\ state'.dpr = MeasuredDpr(viewport)
                  /\ canvas'.width = Physical(state'.cssW, state'.dpr)
                  /\ canvas'.height = Physical(state'.cssH, state'.dpr)
                  /\ canvas'.surface.background =
                        (IF state.background \in {NULL, ""} THEN "transparent"
                                                            ELSE state.background)
                  /\ ~outcome'.threw => canvas'.surface.paints = FillsOf(blobs)
             ELSE /\ state' = state /\ canvas' = canvas
                  /\ Cardinality(pending') = 1]_vars
    /\ []((Built /\ ~state.running) => loop(Machine, now, viewport) = Machine)

\* C20 witness: a callback was accepted and painted the configured background
\* on the backing store of a 33 x 100 viewport at pixel ratio 1.5.
C20_Witness ==
    /\ Built /\ call.op = "frame" /\ outcome.rendered /\ paintTimes[1] # 0
    /\ state.cssW = 33 /\ state.dpr = 150 /\ canvas.width = 50
    /\ canvas.surface.background = "#102030"

----------------------------------------------------------------------------
(* Viewport, animation clock, diameters, registry records *)

\* round(logical dimension x pixel ratio), halves rounded up; ratio in hundredths
RoundedProduct(logical, ratio) == (logical * ratio + 50) \div 100

\* what a measurement of the viewport gives: the logical box and the pixel ratio
Measured(vp) ==
    [cssW |-> IF vp.width < 10 THEN 1 ELSE vp.width \div 10,
     cssH |-> IF vp.height < 10 THEN 1 ELSE vp.height \div 10,
     dpr  |-> IF vp.devicePixelRatio < 100 THEN 100 ELSE vp.devicePixelRatio]

Recorded(s) == [cssW |-> s.cssW, cssH |-> s.cssH, dpr |-> s.dpr]

\* C21: a frame that is rendered leaves the size of the backing store and the
\* recorded values as they are when the measured logical width, height and
\* pixel ratio are the recorded ones, and otherwise records the measured
\* values and sets each physical dimension to round(logical x ratio); the
\* tracker applied to any state does the same, clearing the store only when
\* it resizes it; hence the backing store always has the size
\* round(recorded logical size x recorded ratio).
C21_ResizeOnlyOnChange ==
    /\ [][(outcome'.rendered /\ (FrameStep \/ StartStep)) =>
             IF Measured(viewport) = Recorded(state)
             THEN /\ Recorded(state') = Recorded(state)
                  /\ canvas'.width = canvas.width /\ canvas'.height = canvas.height
             ELSE /\ Recorded(state') = Measured(viewport)
                  /\ canvas'.width = RoundedProduct(Measured(viewport).cssW, Measured(viewport).dpr)
                  /\ canvas'.height = RoundedProduct(Measured(viewport).cssH, Measured(viewport).dpr)]_vars
    /\ [](Built =>
             /\ canvas.width = RoundedProduct(state.cssW, state.dpr)
             /\ canvas.height = RoundedProduct(state.cssH, state.dpr)
             /\ Measured(viewport) = Recorded(state) => ensureSize(Machine, viewport) = Machine)

\* C21 witness: a callback rendered a frame on a 33 x 100 viewport at pixel
\* ratio 1.5, whose backing store is 50 x 150 (49.5 rounded up).
C21_Witness ==
    /\ Built /\ call.op = "frame" /\ outcome.rendered
    /\ Recorded(state) = [cssW |-> 33, cssH |-> 100, dpr |-> 150]
    /\ canvas.width = 50 /\ canvas.height = 150
    /\ Measured(viewport) = Recorded(state)

\* C22: the start timestamp is the clock at construction and no step changes
\* it; every frame, whether rendered by a callback or inside start(), is
\* drawn for the elapsed time frame time - start timestamp.
C22_ElapsedSinceConstruction ==
    /\ [](Built => state.startMs = StartMs)
    /\ [][Built => state'.startMs = state.startMs]_vars
    /\ [][(outcome'.rendered /\ (FrameStep \/ StartStep)) =>
             canvas'.surface.t = now' - StartMs]_vars

\* C22 witness: after a stop() and a start() later on, a callback rendered a
\* frame with a blob in the registry, for the time elapsed since construction.
C22_Witness ==
    /\ Built /\ call.op = "frame" /\ outcome.rendered /\ blobs # <<>>
    /\ startedAt > StartMs /\ now > startedAt
    /\ canvas.surface.t = now - StartMs

\* C23: a diameter given as "<n>%" resolves to n% of max(width, height), on
\* every viewport.
C23_PercentDiameterOfViewportMax ==
    \A ex \in UnitExamples :
        (/\ resolved.by = "resolveDiameter"
         /\ resolved.value.chars = ex.text
         /\ ex.unit = "%") =>
            resolved.result =
                PercentOf(ex.n, IF resolved.dims.w > resolved.dims.h
                                THEN resolved.dims.w ELSE resolved.dims.h)

\* What does hold of C23: a diameter given as "<n>vmax" resolves to n% of
\* max(width, height), and one given as "<n>%" to n% of the width.
C23_DiameterRules ==
    \A ex \in UnitExamples :
        (resolved.by = "resolveDiameter" /\ resolved.value.chars = ex.text) =>
            /\ ex.unit = "vmax" =>
                  resolved.result =
                      PercentOf(ex.n, IF resolved.dims.w > resolved.dims.h
                                      THEN resolved.dims.w ELSE resolved.dims.h)
            /\ ex.unit = "%" => resolved.result = PercentOf(ex.n, resolved.dims.w)

\* the fields of a complete blob the renderer reads
BlobFields == {"id", "diameter", "center", "layers", "drift"}

\* C24: every record of the registry is a complete blob, and no frame over
\* the registry throws.
C24_RecordsAreComplete ==
    /\ \A i \in 1..Len(blobs) : BlobFields \subseteq DOMAIN blobs[i].val
    /\ call.op = "frame" => ~outcome.threw

\* C25: every entry of the registry is stored under the id of its record, and
\* no two entries have the same key.
C25_KeyIsRecordId ==
    /\ \A i \in 1..Len(blobs) :
          "id" \in DOMAIN blobs[i].val /\ blobs[i].val.id = blobs[i].key
    /\ \A i, j \in 1..Len(blobs) : blobs[i].key = blobs[j].key => i = j

\* C25 witness: updateBlob of a present id was given a partial with another
\* id; the record is still under, and still carries, the id of the call,
\* beside the entry of that other id.
C25_Witness ==
    /\ call.op = "updateBlob" /\ call.had
    /\ "id" \in DOMAIN call.cfg /\ call.cfg.id = "b" /\ call.id = "a"
    /\ KeyOrder(blobs) = <<"b", "a">>
    /\ blobs[2].val.id = "a"

====
